---- MODULE Spec2Model ----
(***************************************************************************)
(* Resource governance of the Starlark interpreter: the thread-scoped      *)
(* resource Monitor (step and memory quotas with a sticky error) and the   *)
(* allocation-accounting wrapper built on it.                              *)
(*                                                                         *)
(* The Monitor is modelled as the state machine of its methods, callable   *)
(* in any order on one Monitor value.  uint64 and uintptr are modelled as  *)
(* one unsigned word of WordBits bits (both are 64 bits wide on the        *)
(* platforms the package targets); arithmetic on them wraps modulo         *)
(* 2^WordBits, as Go's does.                                               *)
(***************************************************************************)
EXTENDS Integers, Naturals, Sequences, FiniteSets, TLC

\* ------------------------------------------------------------------ bounds

\* Width, in bits, of the unsigned word standing for uint64 / uintptr.
WordBits == 16

\* Largest small cap the host configures (besides 0 and the maximum word).
MaxCap == 1

\* Largest small delta declared (besides the maximum word).
MaxDelta == 1

\* countStep is called at most this many times on one Monitor.
MaxStepCalls == 2

\* DeclareSizeIncrease / DeclareSizeDecrease are each called at most this
\* many times on one Monitor (the wrapper's declarations included).
MaxDeclares == 2

\* ------------------------------------------------------- words and values

WordMod == 2 ^ WordBits

MaxWord == WordMod - 1

\* x * y on an unsigned machine word.
WordMul(x, y) == ((x % WordMod) * (y % WordMod)) % WordMod

\* x + y and x - y on an unsigned machine word.
WordAdd(x, y) == (x + y) % WordMod

WordSub(x, y) == (x - y + WordMod) % WordMod

\* The value of the -memcap flag when the host does not override it.
MemcapDefault == 32767

Caps == (0 .. MaxCap) \cup {MaxWord}

Deltas == (0 .. MaxDelta) \cup {MaxWord}

\* The values the -memcap flag may hold: its default, 0 and an override.
Memcaps == {MemcapDefault, 0, MaxCap + 1}

\* Errors are records; id numbers the error values in the order in which
\* they were constructed, so that two errors with the same text that were
\* constructed by two calls are different values (as two errors.New are).
NoErr == [kind |-> "nil", delta |-> 0, id |-> 0]

StepsErr(n) == [kind |-> "too many steps", delta |-> 0, id |-> n]

MemErr(d, n) == [kind |-> "too much memory", delta |-> d, id |-> n]

ConfigStepsErr == [kind |-> "cannot change execution steps of a monitor already in use", delta |-> 0, id |-> 0]

ConfigCapErr == [kind |-> "cannot change memory cap of a monitor already in use", delta |-> 0, id |-> 0]

OpErr == [kind |-> "operation failed", delta |-> 0, id |-> 0]

\* The failure a cancelled thread surfaces: it carries the stored reason.
CancelErr(reason) == [kind |-> reason, delta |-> 0, id |-> 0]

EstimateErr == [kind |-> "internal error: failed to parse", delta |-> 0, id |-> 0]

QuotaKinds == {"too many steps", "too much memory"}

ConfigKinds == {ConfigStepsErr.kind, ConfigCapErr.kind}

\* ------------------------------------------------------------------ state

VARIABLES
    steps,            \* Monitor.steps
    maxSteps,         \* Monitor.maxSteps
    locationsUsed,    \* Monitor.locationsUsed
    locationsCap,     \* Monitor.locationsCap
    err,              \* Monitor.err, the latched error (NoErr: nil)
    memcap,           \* *DefaultLocationsCap, the process-wide -memcap flag
    call,             \* the last call made: [name, arg]
    ret,              \* the error the last call returned (NoErr: nil or no result)
    made,             \* quota errors constructed so far
    stepCalls,        \* countStep calls so far
    incCalls,         \* DeclareSizeIncrease calls so far
    decCalls,         \* DeclareSizeDecrease calls so far
    opDone,           \* times the wrapped operation ran in the last wrapper call
    result,           \* what the last wrapper call returned: "nil" or "value"
    given,            \* the last wrapper call's arguments, and the counter and
                      \* latch it found
    snippet,          \* what compiling the estimator's code argument gives
    byteCode,         \* EstimateSteps' byteCode (mod.compiled.Toplevel.Code)
    pc,               \* EstimateSteps' pc
    stepsCounted,     \* EstimateSteps' local steps
    estCall,          \* the estimator call in progress: [name, n]
    estRet,           \* what the last estimator call returned
    single,           \* what the last EstimateSteps call returned
    repeated,         \* an EstimateSteps call returned after an earlier one
    maxAllocs,        \* ST.maxAllocs
    maxExecutionSteps, \* ST.maxExecutionSteps
    N,                \* ST.N
    requiredSafety,   \* ST.requiredSafety
    safetyGiven,      \* ST.safetyGiven
    executionStepModel, \* ST.executionStepModel
    failed,           \* TestBase.Failed()
    reports,          \* the messages reported through the TestBase
    loopN,            \* measureResources' n
    memorySum,        \* measureResources' memorySum, then resources.memorySum
    modelStepSum,     \* measureResources' modelStepSum, then resources.modelStepSum
    nSum,             \* measureResources' nSum, then resources.nSum
    valueTrackerOverhead, \* measureResources' valueTrackerOverhead
    startNano,        \* measureResources' startNano
    allocs,           \* thread.Allocs() of the tested thread
    executionSteps,   \* thread.ExecutionSteps() of the tested thread
    stage,            \* where the harness is: "configuring", "measuring",
                      \* or back from RunThread, "checked" or "aborted"
    passed,           \* the union of the sets passed to ST.RequireSafety
    elapsed,          \* nanoseconds since measureResources read startNano
    cancelReason,     \* the reason the thread was cancelled with ("": not)
    registry,         \* a module's members, its safety declarations, and
                      \* what the consistency test reported
    operands,         \* two Safety values and what Contains and the union
                      \* make of them
    growth,           \* one computation of the loop's next repeat count
    contexts,         \* two execution contexts calling into one Monitor:
                      \* where each is in its call, and what they declared
    script            \* a RunString call: its code, the script's error, how
                      \* often the script ran, and what the call returned

monitor == <<steps, maxSteps, locationsUsed, locationsCap, err>>

history == <<made, stepCalls, incCalls, decCalls>>

wrapper == <<opDone, result, given>>

estimator == <<snippet, byteCode, pc, stepsCounted, estCall, estRet, single,
               repeated>>

config == <<maxAllocs, maxExecutionSteps, requiredSafety, safetyGiven,
            executionStepModel, passed>>

measure == <<N, loopN, memorySum, modelStepSum, nSum, valueTrackerOverhead,
             startNano, allocs, executionSteps, elapsed>>

others == <<cancelReason, registry, operands, growth, contexts, script>>

harness == <<config, measure, failed, reports, stage>>

vars == <<steps, maxSteps, locationsUsed, locationsCap, err, memcap, call, ret,
          made, stepCalls, incCalls, decCalls, opDone, result, given,
          snippet, byteCode, pc, stepsCounted, estCall, estRet, single,
          repeated, maxAllocs, maxExecutionSteps, N, requiredSafety,
          safetyGiven, executionStepModel, failed, reports, loopN, memorySum,
          modelStepSum, nSum, valueTrackerOverhead, startNano, allocs,
          executionSteps, stage, passed, elapsed, cancelReason, registry,
          operands, growth, contexts, script>>

Call(name, arg) == [name |-> name, arg |-> arg]

NoCall == Call("new", 0)

\* A wrapper call: the pre-declared estimate, whether a Sizer is supplied,
\* the size the Sizer measures for the operation's result, whether the
\* operation fails, and the Monitor's counter and latch on entry.
Given(prealloc, sizer, size, fails, used, e) ==
    [prealloc |-> prealloc, sizer |-> sizer, size |-> size, fails |-> fails,
     used |-> used, err |-> e]

\* An estimator call and what it returned: the function called, its n (0
\* for the functions without one), the estimate, the error, and whether
\* the call panicked with that error instead of returning.
EstCall(name, n) == [name |-> name, n |-> n]

EstRet(name, n, value, e, panic) ==
    [name |-> name, n |-> n, value |-> value, err |-> e, panic |-> panic]

NoEstCall == EstCall("none", 0)

NoEstRet == EstRet("none", 0, 0, NoErr, FALSE)

\* What the compiler makes of a snippet: whether it compiles, and the
\* instructions of its top-level function.
Compiled(ok, instrs) == [ok |-> ok, instrs |-> instrs]

\* No estimator call made yet on the snippet s.
NewEstimator(s) ==
    /\ snippet = s
    /\ byteCode = << >>
    /\ pc = 0
    /\ stepsCounted = 0
    /\ estCall = NoEstCall
    /\ estRet = NoEstRet
    /\ single = NoEstRet
    /\ repeated = FALSE

\* A new Monitor is Go's zero value; the flag holds what the process was
\* started with.
NewMonitor ==
    /\ steps = 0
    /\ maxSteps = 0
    /\ locationsUsed = 0
    /\ locationsCap = 0
    /\ err = NoErr
    /\ memcap \in Memcaps
    /\ call = NoCall
    /\ ret = NoErr
    /\ made = 0
    /\ stepCalls = 0
    /\ incCalls = 0
    /\ decCalls = 0
    /\ opDone = 0
    /\ result = "nil"
    /\ given = Given(0, FALSE, 0, FALSE, 0, NoErr)

\* From(base): both ceilings unbounded, nothing required, nothing run.
From ==
    /\ maxAllocs = MaxWord
    /\ maxExecutionSteps = MaxWord
    /\ N = 0
    /\ requiredSafety = 0
    /\ safetyGiven = FALSE
    /\ executionStepModel = ""
    /\ failed = FALSE
    /\ reports = {}
    /\ loopN = 0
    /\ memorySum = 0
    /\ modelStepSum = 0
    /\ nSum = 0
    /\ valueTrackerOverhead = 0
    /\ startNano = 0
    /\ allocs = 0
    /\ executionSteps = 0
    /\ stage = "configuring"
    /\ passed = 0
    /\ elapsed = 0

\* A module's members and its safety declarations by name, the errors the
\* consistency test has reported, and which test ran ("": none yet).
Registry(members, safeties, errors, ran) ==
    [members |-> members, safeties |-> safeties, errors |-> errors, ran |-> ran]

\* Two Safety values; once applied, their union and whether the first
\* contains the second.
SafetyPair(a, b, union, contains, applied) ==
    [a |-> a, b |-> b, union |-> union, contains |-> contains, applied |-> applied]

NotCancelled == cancelReason = ""

NoRegistry == registry = Registry(<< >>, << >>, {}, "")

NoOperands == operands = SafetyPair(0, 0, 0, FALSE, FALSE)

\* One computation of the next repeat count: the last count, st.N, the
\* memory sum, the memory budget and the ceiling it is made from, and once
\* made, the count and st.N.
Growth(last, prevIters, memory, budget, ceiling, next, stN, applied) ==
    [last |-> last, prevIters |-> prevIters, memory |-> memory,
     budget |-> budget, ceiling |-> ceiling, n |-> next, N |-> stN,
     applied |-> applied]

NoGrowth == growth = Growth(0, 0, 0, 0, 0, 0, 0, FALSE)

\* An execution context: where it is in its call, the call's delta, and the
\* step counter as it read it.
Context(at, arg, loaded) == [pc |-> at, arg |-> arg, loaded |-> loaded]

\* A context between calls.
Idle == Context("idle", 0, 0)

\* Two idle contexts; the deltas added less the deltas subtracted so far.
NoContexts == contexts = [of |-> <<Idle, Idle>>, declared |-> 0]

\* A RunString call: the code passed, whether RunThread was reached, the
\* workload's codeErr (set or nil), how often the script was executed, and
\* the value returned ("none": not yet).
Script(code, running, codeErr, runs, returned) ==
    [code |-> code, running |-> running, codeErr |-> codeErr, runs |-> runs,
     returned |-> returned]

NoScript == script = Script("", FALSE, FALSE, 0, "none")

\* No thread cancelled, no module registered, no Safety values at hand, no
\* repeat count computed, no call in progress.
NoOthers ==
    /\ NotCancelled
    /\ NoRegistry
    /\ NoOperands
    /\ NoGrowth
    /\ NoContexts
    /\ NoScript

Init ==
    /\ NewMonitor
    /\ NewEstimator(Compiled(FALSE, << >>))
    /\ From
    /\ NoOthers

\* ------------------------------------------------------- Monitor methods

\* initMonitor overwriting a configured cap with the default.
InitLocationsCapAlways(cap, dflt) ==
    IF dflt # 0 THEN dflt ELSE WordSub(0, 1)

\* The cap initMonitor leaves in locationsCap.
InitLocationsCap(cap, dflt) ==
    IF cap = 0
    THEN IF dflt # 0 THEN dflt ELSE WordSub(cap, 1)
    ELSE cap

\* The cap initMonitor leaves in maxSteps.
InitMaxSteps(max) == IF max = 0 THEN WordSub(max, 1) ELSE max

initMonitor ==
    /\ locationsCap' = InitLocationsCap(locationsCap, memcap)
    /\ maxSteps' = InitMaxSteps(maxSteps)
    /\ call' = Call("initMonitor", 0)
    /\ ret' = NoErr
    /\ UNCHANGED <<steps, locationsUsed, err, memcap, history, wrapper>>
    /\ UNCHANGED <<estimator, harness, others>>

\* CheckUsage's test of the step counter against the cap.
StepsExhausted(s, max) == s >= max

\* CheckUsage testing the counter again instead of returning the latch.
CheckUsageRechecks ==
    /\ call' = Call("CheckUsage", 0)
    /\ IF StepsExhausted(steps, maxSteps)
       THEN /\ err' = StepsErr(made + 1)
            /\ made' = made + 1
            /\ ret' = err'
       ELSE /\ ret' = NoErr
            /\ UNCHANGED <<err, made>>
    /\ UNCHANGED <<steps, maxSteps, locationsUsed, locationsCap, memcap,
                   stepCalls, incCalls, decCalls, wrapper>>
    /\ UNCHANGED <<estimator, harness, others>>

CheckUsage ==
    /\ call' = Call("CheckUsage", 0)
    /\ IF err # NoErr
       THEN /\ ret' = err
            /\ UNCHANGED <<err, made>>
       ELSE IF StepsExhausted(steps, maxSteps)
            THEN /\ err' = StepsErr(made + 1)
                 /\ made' = made + 1
                 /\ ret' = err'
            ELSE /\ ret' = NoErr
                 /\ UNCHANGED <<err, made>>
    /\ UNCHANGED <<steps, maxSteps, locationsUsed, locationsCap, memcap,
                   stepCalls, incCalls, decCalls, wrapper>>
    /\ UNCHANGED <<estimator, harness, others>>

\* InUse that needs a second step before it reports use.
InUseAfterTwo(s) == s > 1

InUse(s) == s > 0

SetMaxExecutionSteps(max) ==
    /\ call' = Call("SetMaxExecutionSteps", max)
    /\ IF InUse(steps)
       THEN /\ ret' = ConfigStepsErr
            /\ UNCHANGED maxSteps
       ELSE /\ maxSteps' = max
            /\ ret' = NoErr
    /\ UNCHANGED <<steps, locationsUsed, locationsCap, err, memcap, history, wrapper>>
    /\ UNCHANGED <<estimator, harness, others>>

countStep ==
    /\ stepCalls < MaxStepCalls
    /\ steps' = WordAdd(steps, 1)
    /\ stepCalls' = stepCalls + 1
    /\ call' = Call("countStep", 0)
    /\ ret' = NoErr
    /\ UNCHANGED <<maxSteps, locationsUsed, locationsCap, err, memcap,
                   made, incCalls, decCalls, wrapper>>
    /\ UNCHANGED <<estimator, harness, others>>

\* SetLocationsCap storing the cap before it tests the guard.
SetLocationsCapUnguarded(max) ==
    /\ call' = Call("SetLocationsCap", max)
    /\ locationsCap' = max
    /\ ret' = IF steps > 0 THEN ConfigCapErr ELSE NoErr
    /\ UNCHANGED <<steps, maxSteps, locationsUsed, err, memcap, made, stepCalls,
                   incCalls, decCalls, opDone, result, given>>
    /\ UNCHANGED <<estimator, harness, others>>

SetLocationsCap(max) ==
    /\ call' = Call("SetLocationsCap", max)
    /\ IF InUse(steps)
       THEN /\ ret' = ConfigCapErr
            /\ UNCHANGED locationsCap
       ELSE /\ locationsCap' = max
            /\ ret' = NoErr
    /\ UNCHANGED <<steps, maxSteps, locationsUsed, err, memcap, history, wrapper>>
    /\ UNCHANGED <<estimator, harness, others>>

\* The cap test letting a total equal to the cap through.
CapExceeded(used, cap) == used > cap

\* DeclareSizeIncrease's test of the new total against the cap.
CapReached(used, cap) == used >= cap

\* DeclareSizeIncrease adding the delta before it looks at the latch.
IncreaseBeforeLatch(used, cap, e, n, delta) ==
    IF e # NoErr
    THEN [used |-> (used + delta) % (2 ^ WordBits), err |-> e, ret |-> e]
    ELSE LET total == (used + delta) % (2 ^ WordBits)
         IN  IF total >= cap
             THEN [used |-> total, err |-> MemErr(delta, n + 1), ret |-> MemErr(delta, n + 1)]
             ELSE [used |-> total, err |-> NoErr, ret |-> NoErr]

\* DeclareSizeIncrease testing the cap against the old total.
IncreaseCheckFirst(used, cap, e, n, delta) ==
    IF e # NoErr
    THEN [used |-> used, err |-> e, ret |-> e]
    ELSE LET total == (used + delta) % (2 ^ WordBits)
         IN  IF used >= cap
             THEN [used |-> total, err |-> MemErr(delta, n + 1), ret |-> MemErr(delta, n + 1)]
             ELSE [used |-> total, err |-> NoErr, ret |-> NoErr]

\* DeclareSizeIncrease answering nil on a latched Monitor.
IncreaseForgetsLatch(used, cap, e, n, delta) ==
    IF e # NoErr
    THEN [used |-> used, err |-> e, ret |-> NoErr]
    ELSE LET total == (used + delta) % (2 ^ WordBits)
         IN  IF total >= cap
             THEN [used |-> total, err |-> MemErr(delta, n + 1), ret |-> MemErr(delta, n + 1)]
             ELSE [used |-> total, err |-> NoErr, ret |-> NoErr]

\* The Monitor after DeclareSizeIncrease(delta) on a Monitor with counter
\* used, cap cap and latch e, n errors having been made: the new counter,
\* the new latch and the error returned.
IncreaseOutcome(used, cap, e, n, delta) ==
    IF e # NoErr
    THEN [used |-> used, err |-> e, ret |-> e]
    ELSE LET total == WordAdd(used, delta)
         IN  IF CapReached(total, cap)
             THEN [used |-> total, err |-> MemErr(delta, n + 1), ret |-> MemErr(delta, n + 1)]
             ELSE [used |-> total, err |-> NoErr, ret |-> NoErr]

\* DeclareSizeDecrease subtracting from a latched Monitor too.
DecreaseIgnoringLatch(used, e, delta) == (used - delta + 2 ^ WordBits) % (2 ^ WordBits)

\* DeclareSizeDecrease adding delta (the negation forgotten).
DecreaseAdds(used, e, delta) ==
    IF e # NoErr THEN used ELSE (used + delta) % (2 ^ WordBits)

\* The counter after DeclareSizeDecrease(delta).
DecreaseOutcome(used, e, delta) ==
    IF e # NoErr THEN used ELSE WordSub(used, delta)

DeclareSizeIncrease(delta) ==
    /\ incCalls < MaxDeclares
    /\ LET out == IncreaseOutcome(locationsUsed, locationsCap, err, made, delta)
       IN  /\ locationsUsed' = out.used
           /\ err' = out.err
           /\ ret' = out.ret
           /\ made' = IF out.err # err THEN made + 1 ELSE made
    /\ incCalls' = incCalls + 1
    /\ call' = Call("DeclareSizeIncrease", delta)
    /\ UNCHANGED <<steps, maxSteps, locationsCap, memcap, stepCalls, decCalls, wrapper>>
    /\ UNCHANGED <<estimator, harness, others>>

DeclareSizeDecrease(delta) ==
    /\ decCalls < MaxDeclares
    /\ locationsUsed' = DecreaseOutcome(locationsUsed, err, delta)
    /\ decCalls' = decCalls + 1
    /\ call' = Call("DeclareSizeDecrease", delta)
    /\ ret' = NoErr
    /\ UNCHANGED <<steps, maxSteps, locationsCap, err, memcap, made, stepCalls,
                   incCalls, wrapper>>
    /\ UNCHANGED <<estimator, harness, others>>

\* What initMonitor establishes: both caps resolved (0 stands for "not
\* configured").  The interpreter initialises the Monitor before it counts,
\* checks or declares: a declaration made after SetMaxAllocations(0) is
\* measured against the default cap, not against 0.
Ready == locationsCap # 0 /\ maxSteps # 0

Next ==
    \/ initMonitor
    \/ \E max \in Caps : SetMaxExecutionSteps(max)
    \/ \E max \in Caps : SetLocationsCap(max)
    \/ Ready /\ CheckUsage
    \/ Ready /\ countStep
    \/ \E delta \in Deltas : Ready /\ DeclareSizeIncrease(delta)
    \/ \E delta \in Deltas : Ready /\ DeclareSizeDecrease(delta)

Spec == Init /\ [][Next]_vars

\* ------------------------------------------- allocation-accounting wrapper

\* Largest estimate and largest measured size handed to the wrapper.
MaxSize == 2

Sizes == 0 .. MaxSize

\* The wrapper handing back the operation's result beside the error of a
\* failed post-measurement declaration.
AccountKeepsResult(used, cap, e, n, prealloc, sizer, size, fails) ==
    LET pre == IF prealloc # 0
               THEN IncreaseOutcome(used, cap, e, n, prealloc)
               ELSE [used |-> used, err |-> e, ret |-> NoErr]
        incs == IF prealloc # 0 THEN 1 ELSE 0
    IN  IF pre.ret # NoErr
        THEN [used |-> pre.used, err |-> pre.err, ret |-> pre.ret,
              result |-> "nil", opDone |-> 0, incs |-> incs, decs |-> 0]
        ELSE IF fails
        THEN [used |-> pre.used, err |-> pre.err, ret |-> OpErr,
              result |-> "nil", opDone |-> 1, incs |-> incs, decs |-> 0]
        ELSE IF ~sizer
        THEN [used |-> pre.used, err |-> pre.err, ret |-> NoErr,
              result |-> "value", opDone |-> 1, incs |-> incs, decs |-> 0]
        ELSE IF size > prealloc
        THEN LET post == IncreaseOutcome(pre.used, cap, pre.err, n, size - prealloc)
             IN  [used |-> post.used, err |-> post.err, ret |-> post.ret,
                  result |-> "value",
                  opDone |-> 1, incs |-> incs + 1, decs |-> 0]
        ELSE [used |-> DecreaseOutcome(pre.used, pre.err, prealloc - size),
              err |-> pre.err, ret |-> NoErr, result |-> "value",
              opDone |-> 1, incs |-> incs, decs |-> 1]

\* AccountAllocsForOperation(thread, name, op, prealloc, sizer) on a Monitor
\* with counter used, cap cap and latch e: the counter and latch it leaves,
\* the result and error it returns, how often it ran op, and how many
\* increases and decreases it declared.
AccountOutcome(used, cap, e, n, prealloc, sizer, size, fails) ==
    LET pre == IF prealloc # 0
               THEN IncreaseOutcome(used, cap, e, n, prealloc)
               ELSE [used |-> used, err |-> e, ret |-> NoErr]
        incs == IF prealloc # 0 THEN 1 ELSE 0
    IN  IF pre.ret # NoErr
        THEN [used |-> pre.used, err |-> pre.err, ret |-> pre.ret,
              result |-> "nil", opDone |-> 0, incs |-> incs, decs |-> 0]
        ELSE IF fails
        THEN [used |-> pre.used, err |-> pre.err, ret |-> OpErr,
              result |-> "nil", opDone |-> 1, incs |-> incs, decs |-> 0]
        ELSE IF ~sizer
        THEN [used |-> pre.used, err |-> pre.err, ret |-> NoErr,
              result |-> "value", opDone |-> 1, incs |-> incs, decs |-> 0]
        ELSE IF size > prealloc
        THEN LET post == IncreaseOutcome(pre.used, cap, pre.err, n, size - prealloc)
             IN  [used |-> post.used, err |-> post.err, ret |-> post.ret,
                  result |-> IF post.ret # NoErr THEN "nil" ELSE "value",
                  opDone |-> 1, incs |-> incs + 1, decs |-> 0]
        ELSE [used |-> DecreaseOutcome(pre.used, pre.err, prealloc - size),
              err |-> pre.err, ret |-> NoErr, result |-> "value",
              opDone |-> 1, incs |-> incs, decs |-> 1]

AccountAllocsForOperation(prealloc, sizer, size, fails) ==
    /\ incCalls < MaxDeclares
    /\ decCalls < MaxDeclares
    /\ LET out == AccountOutcome(locationsUsed, locationsCap, err, made,
                                 prealloc, sizer, size, fails)
       IN  /\ locationsUsed' = out.used
           /\ err' = out.err
           /\ ret' = out.ret
           /\ result' = out.result
           /\ opDone' = out.opDone
           /\ made' = IF out.err # err THEN made + 1 ELSE made
           /\ incCalls' = incCalls + out.incs
           /\ decCalls' = decCalls + out.decs
    /\ given' = Given(prealloc, sizer, size, fails, locationsUsed, err)
    /\ call' = Call("AccountAllocsForOperation", prealloc)
    /\ UNCHANGED <<steps, maxSteps, locationsCap, memcap, stepCalls>>
    /\ UNCHANGED <<estimator, harness, others>>

\* A thread the host configures (SetMaxAllocations delegates to
\* SetLocationsCap) and built-ins run accounted operations on.
NextWrapper ==
    \/ initMonitor
    \/ \E max \in Caps : SetLocationsCap(max)
    \/ \E prealloc \in Sizes, sizer \in BOOLEAN, size \in Sizes, fails \in BOOLEAN :
          Ready /\ AccountAllocsForOperation(prealloc, sizer, size, fails)

SpecWrapper == Init /\ [][NextWrapper]_vars

\* -------------------------------------------------------- step estimator
\* EstimateSteps compiles a snippet and walks the code of its top-level
\* function; EstimateIterSteps scales the result to a loop of n iterations.
\* The compiler is outside the estimator: what it makes of a snippet is the
\* model's input, a failure or a stream of encoded instructions.

\* A snippet's own instructions number at most MaxInstrs.
MaxInstrs == 2

\* Largest repeat count passed to EstimateIterSteps.
MaxN == 2

\* compile.OpcodeArgMin, the smallest opcode that carries an operand.  The
\* numbering is the compiler's; the walk reads it only through the
\* comparison op >= OpcodeArgMin.
OpcodeArgMin == 43

\* An operand byte below HighBit is the operand's last.
HighBit == 128

snippetOverhead == 3

iterOverhead == 6

Ns == 0 .. MaxN

Insn(op, arg) == [op |-> op, arg |-> arg]

\* Operands of one, two and three bytes; the one-byte operands are also
\* opcodes, without and with an operand of their own.
Args == {0, OpcodeArgMin, HighBit, HighBit * HighBit}

Insns == {Insn(0, 0)} \cup {Insn(OpcodeArgMin, arg) : arg \in Args}

\* What the compiler ends every top-level function with, after the
\* snippet's own instructions: push None and return, two instructions
\* without operand.  The POP that discards the value of a final expression
\* statement is among the snippet's instructions; a snippet of `pass` has
\* none.
WrapUp == << Insn(OpcodeArgMin - 1, 0), Insn(OpcodeArgMin - 1, 0) >>

Bodies == UNION {[1 .. k -> Insns] : k \in 0 .. MaxInstrs}

Snippets == {Compiled(FALSE, << >>)} \cup {Compiled(TRUE, body \o WrapUp) : body \in Bodies}

\* The operand encoding: seven bits a byte, low bits first, the high bit set
\* on every byte but the last.
RECURSIVE Varint(_)
Varint(x) ==
    IF x < HighBit THEN << x >> ELSE << (x % HighBit) + HighBit >> \o Varint(x \div HighBit)

EncodeInsn(i) ==
    IF i.op >= OpcodeArgMin THEN << i.op >> \o Varint(i.arg) ELSE << i.op >>

RECURSIVE Encode(_)
Encode(instrs) ==
    IF instrs = << >> THEN << >> ELSE EncodeInsn(Head(instrs)) \o Encode(Tail(instrs))

EstimatorNames == {"EstimateSteps", "MustEstimateSteps", "EstimateIterSteps", "MustEstimateIterSteps"}

Musts == {"MustEstimateSteps", "MustEstimateIterSteps"}

Iters == {"EstimateIterSteps", "MustEstimateIterSteps"}

EstCalls ==
    {EstCall(name, 0) : name \in EstimatorNames \ Iters}
        \cup {EstCall(name, n) : name \in Iters, n \in Ns}

\* The operand loop taking one byte whatever its high bit.
SkipOneByte(code, p) == p + 1

\* The operand loop (label arg), entered with pc = p: pc when it breaks.
\* code[p + 1] is Go's byteCode[p].
RECURSIVE SkipArg(_, _)
SkipArg(code, p) ==
    LET b == code[p + 1]
    IN  IF b < HighBit THEN p + 1 ELSE SkipArg(code, p + 1)

\* steps - snippetOverhead, on uint64.
StepsResult(counted) == WordSub(counted, snippetOverhead)

\* The loop law with the overhead added once, not once an iteration.
IterOverheadOnce(n, stepsPerIter) ==
    WordAdd(WordMul(n % WordMod, stepsPerIter), iterOverhead)

\* uint64(n) * (stepsPerIter + iterOverhead).
IterResult(n, stepsPerIter) ==
    WordMul(n % WordMod, WordAdd(stepsPerIter, iterOverhead))

\* A compile failure that only the error-returning functions notice.
FailureNoPanic(name, n) == EstRet(name, n, 0, EstimateErr, FALSE)

\* What each function makes of a compile failure: 0 and the estimation
\* error, which the Must functions panic with.
FailureReturn(name, n) == EstRet(name, n, 0, EstimateErr, name \in Musts)

\* What each function returns once the walk has counted `counted` steps.
SuccessReturn(name, n, counted) ==
    EstRet(name, n,
           IF name \in Iters THEN IterResult(n, StepsResult(counted))
                             ELSE StepsResult(counted),
           NoErr, FALSE)

\* The bookkeeping of a return r: the last return, and the last return of
\* a direct EstimateSteps call.
Returned(r) ==
    /\ estRet' = r
    /\ single' = IF r.name = "EstimateSteps" THEN r ELSE single
    /\ repeated' = (repeated \/ (r.name = "EstimateSteps" /\ single # NoEstRet))

\* EstimateSteps' entry with the walk's count carried over from the last
\* call (steps kept outside the function).
EstimateKeepsCount(name, n) ==
    /\ estCall = NoEstCall
    /\ IF ~snippet.ok
       THEN /\ Returned(FailureReturn(name, n))
            /\ UNCHANGED <<byteCode, pc, stepsCounted, estCall>>
       ELSE /\ byteCode' = Encode(snippet.instrs)
            /\ pc' = 0
            /\ estCall' = EstCall(name, n)
            /\ UNCHANGED <<stepsCounted, estRet, single, repeated>>
    /\ UNCHANGED <<snippet, monitor, memcap, call, ret, history, wrapper, harness, others>>

\* A call of one of the four functions, up to the head of EstimateSteps'
\* loop: the snippet is compiled; a failure is returned (or panicked with)
\* at once, otherwise the walk starts with fresh locals.
Estimate(name, n) ==
    /\ estCall = NoEstCall
    /\ IF ~snippet.ok
       THEN /\ Returned(FailureReturn(name, n))
            /\ UNCHANGED <<byteCode, pc, stepsCounted, estCall>>
       ELSE /\ byteCode' = Encode(snippet.instrs)
            /\ pc' = 0
            /\ stepsCounted' = 0
            /\ estCall' = EstCall(name, n)
            /\ UNCHANGED <<estRet, single, repeated>>
    /\ UNCHANGED <<snippet, monitor, memcap, call, ret, history, wrapper, harness, others>>

\* One iteration of the loop `for pc < len(byteCode)`.
EstimateLoop ==
    /\ estCall # NoEstCall
    /\ pc < Len(byteCode)
    /\ LET op == byteCode[pc + 1]
       IN  /\ stepsCounted' = WordAdd(stepsCounted, 1)
           /\ pc' = IF op >= OpcodeArgMin THEN SkipArg(byteCode, pc + 1) ELSE pc + 1
    /\ UNCHANGED <<snippet, byteCode, estCall, estRet, single, repeated>>
    /\ UNCHANGED <<monitor, memcap, call, ret, history, wrapper, harness, others>>

\* The loop's exit and the return through the calling functions.
EstimateReturn ==
    /\ estCall # NoEstCall
    /\ pc >= Len(byteCode)
    /\ Returned(SuccessReturn(estCall.name, estCall.n, stepsCounted))
    /\ estCall' = NoEstCall
    /\ UNCHANGED <<snippet, byteCode, pc, stepsCounted>>
    /\ UNCHANGED <<monitor, memcap, call, ret, history, wrapper, harness, others>>

InitEstimate ==
    /\ NewMonitor
    /\ memcap = MemcapDefault
    /\ From
    /\ NoOthers
    /\ \E s \in Snippets : NewEstimator(s)

NextEstimate ==
    \/ \E c \in EstCalls : Estimate(c.name, c.n)
    \/ EstimateLoop
    \/ EstimateReturn

SpecEstimate == InitEstimate /\ [][NextEstimate]_vars

\* ---------------------------------------------------- measurement harness
\* startest.ST: the host configures an instance, RunThread runs a workload
\* on a new thread in rounds of growing repeat count N (measureResources)
\* and compares the means per N of what was measured, declared and
\* modelled.  Memory is counted in a unit that keeps the sums small; the
\* ceilings of the loop are scaled to it.

\* measureResources' nMax (100000 in the code).
nMax == 2

\* measureResources' memoryMax (100 * 2 << 20 bytes in the code).
memoryMax == 3

\* unsafe.Sizeof(interface{}(nil)), in the memory unit.
InterfaceSize == 1

\* The most a round of the workload declares, counts, or the model counts.
MaxPerRound == 2

timeMax == 1000000000

\* starlark.Safety, a set of flags held as bits.
CPUSafe == 1

MemSafe == 2

TimeSafe == 4

IOSafe == 8

RECURSIVE BitAnd(_, _)
BitAnd(a, b) ==
    IF a = 0 \/ b = 0 THEN 0
    ELSE (a % 2) * (b % 2) + 2 * BitAnd(a \div 2, b \div 2)

\* The union taken as a sum.
FlagSum(a, b) == a + b

BitOr(a, b) == a + b - BitAnd(a, b)

Contains(a, b) == BitAnd(a, b) = b

\* stSafe with a flag left out.
stSafeWithoutIO == BitOr(BitOr(CPUSafe, MemSafe), TimeSafe)

stSafe == BitOr(BitOr(CPUSafe, MemSafe), BitOr(TimeSafe, IOSafe))

\* The flags are the powers of two below safetyFlagsLimit; Safe is all of
\* them.
safetyFlagsLimit == 16

Safe == safetyFlagsLimit - 1

Flags == {CPUSafe, MemSafe, TimeSafe, IOSafe}

SafetySets == 0 .. (safetyFlagsLimit - 1)

\* Whether the flag is in the set s.
HasFlag(s, flag) == (s \div flag) % 2 = 1

\* What the host passes: ceilings, flags, step models (none, one that runs,
\* one that does not compile, one that fails when run).
Ceilings == {0, MaxWord}

SafetyArgs == {CPUSafe, MemSafe}

Models == {"", "model", "does not compile", "fails"}

\* What a round can see: the clock's nanosecond within the second, the
\* heap's growth over the workload, cap(st.alive) after it, and the amounts
\* the workload declares and counts and the model counts.
Nanos == {0, 999999999}

HeapDeltas == {-1, 1, memoryMax}

AliveCaps == {0, 1}

Amounts == {0, MaxPerRound}

\* time.Now().Nanosecond() when `gone` nanoseconds have gone by since it
\* read start: the nanoseconds within the current second.
NanosPerSecond == 1000000000

ClockNano(start, gone) == (start + gone) % NanosPerSecond

\* What a round can take: half a second, a second (or longer: time beyond
\* the ceiling is not told apart).
RoundTimes == {timeMax \div 2, timeMax}

TimeAfter(gone, took) == IF gone + took > timeMax THEN timeMax ELSE gone + took

\* measureResources' loop condition at clock reading now.
\* The loop condition without the ceiling on the repeat count.
LoopConditionNoCeiling(now) ==
    /\ ~failed
    /\ WordSub(memorySum, valueTrackerOverhead) < memoryMax
    /\ now - startNano < timeMax

LoopCondition(now) ==
    /\ ~failed
    /\ WordSub(memorySum, valueTrackerOverhead) < memoryMax
    /\ loopN < nMax
    /\ now - startNano < timeMax

\* The memory sum taking every round's heap change, shrinkage included.
AddMeasureSigned(sum, iterationMeasure) == WordAdd(sum, iterationMeasure)

\* The memory sum after a round whose heap snapshots differ by
\* iterationMeasure.
AddMeasure(sum, iterationMeasure) ==
    IF iterationMeasure > 0 THEN WordAdd(sum, iterationMeasure) ELSE sum

\* The next n without the limit of a hundredfold growth.
GrowNUnclamped(last, prevIters, memory, budget, ceiling) ==
    LET prevMemory == IF memory <= 0 THEN 1 ELSE memory
        estimate == (budget * prevIters) \div prevMemory
        margin == estimate + estimate \div 5
        minGrowth == last + 1
        grown == IF margin < minGrowth THEN minGrowth ELSE margin
    IN  IF grown > ceiling THEN ceiling ELSE grown

\* The next n without the growth by at least one.
GrowNStalls(last, prevIters, memory, budget, ceiling) ==
    LET prevMemory == IF memory <= 0 THEN 1 ELSE memory
        estimate == (budget * prevIters) \div prevMemory
        margin == estimate + estimate \div 5
        maxGrowth == last * 100
        grown == IF margin > maxGrowth THEN maxGrowth ELSE margin
    IN  IF grown > ceiling THEN ceiling ELSE grown

\* The next n, from the last n, st.N and the memory sum, for a memory
\* budget and a ceiling on n.
GrowN(last, prevIters, memory, budget, ceiling) ==
    LET prevMemory == IF memory <= 0 THEN 1 ELSE memory
        estimate == (budget * prevIters) \div prevMemory
        margin == estimate + estimate \div 5
        maxGrowth == last * 100
        minGrowth == last + 1
        grown == IF margin > maxGrowth THEN maxGrowth
                 ELSE IF margin < minGrowth THEN minGrowth
                 ELSE margin
    IN  IF grown > ceiling THEN ceiling ELSE grown

\* The next n left as the last n.
NextNKeepsLast(last, prevIters, memory) == last

\* The next n, from the last n, st.N and the memory sum.
NextN(last, prevIters, memory) ==
    GrowN(last, prevIters, memory, memoryMax, nMax)

\* The memory sum measureResources returns.
NetMemory(memory, overhead) ==
    IF overhead > memory THEN 0 ELSE memory - overhead

\* The memory comparisons with a measured mean that reaches the ceiling
\* reported as above it.
MemoryChecksAtCeiling(required, ceiling, meanMeasured, meanDeclared) ==
    (IF ceiling # MaxWord /\ meanMeasured >= ceiling
     THEN {"measured memory is above maximum"} ELSE {})
    \cup
    (IF Contains(required, MemSafe) /\ meanDeclared > ceiling
     THEN {"declared allocations are above maximum"} ELSE {})
    \cup
    (IF Contains(required, MemSafe) /\ meanMeasured > meanDeclared
     THEN {"measured memory is above declared allocations"} ELSE {})

\* The memory comparisons with only the ceilings checked.
MemoryChecksOneSided(required, ceiling, meanMeasured, meanDeclared) ==
    (IF ceiling # MaxWord /\ meanMeasured > ceiling
     THEN {"measured memory is above maximum"} ELSE {})
    \cup
    (IF Contains(required, MemSafe) /\ meanDeclared > ceiling
     THEN {"declared allocations are above maximum"} ELSE {})

\* The memory comparisons ending at the first mismatch.
MemoryChecksFirstOnly(required, ceiling, meanMeasured, meanDeclared) ==
    IF ceiling # MaxWord /\ meanMeasured > ceiling
    THEN {"measured memory is above maximum"}
    ELSE IF Contains(required, MemSafe) /\ meanDeclared > ceiling
    THEN {"declared allocations are above maximum"}
    ELSE IF Contains(required, MemSafe) /\ meanMeasured > meanDeclared
    THEN {"measured memory is above declared allocations"}
    ELSE {}

\* RunThread's memory comparisons: the messages reported.
MemoryChecks(required, ceiling, meanMeasured, meanDeclared) ==
    (IF ceiling # MaxWord /\ meanMeasured > ceiling
     THEN {"measured memory is above maximum"} ELSE {})
    \cup
    (IF Contains(required, MemSafe) /\ meanDeclared > ceiling
     THEN {"declared allocations are above maximum"} ELSE {})
    \cup
    (IF Contains(required, MemSafe) /\ meanMeasured > meanDeclared
     THEN {"measured memory is above declared allocations"} ELSE {})

\* The step comparisons with only the ceilings checked.
StepChecksOneSided(required, ceiling, meanExecutionSteps, meanModel) ==
    (IF ceiling # MaxWord /\ meanExecutionSteps > ceiling
     THEN {"declared execution steps are above maximum"} ELSE {})
    \cup
    (IF Contains(required, CPUSafe) /\ meanModel > ceiling
     THEN {"model execution steps are above maximum"} ELSE {})

\* RunThread's step comparisons: the messages reported.
StepChecks(required, ceiling, meanExecutionSteps, meanModel) ==
    (IF ceiling # MaxWord /\ meanExecutionSteps > ceiling
     THEN {"declared execution steps are above maximum"} ELSE {})
    \cup
    (IF Contains(required, CPUSafe) /\ meanModel > ceiling
     THEN {"model execution steps are above maximum"} ELSE {})
    \cup
    (IF Contains(required, CPUSafe) /\ meanModel > meanExecutionSteps
     THEN {"model execution steps are above declared execution steps"} ELSE {})

\* What the harness's methods leave alone, a RunString call in progress
\* apart.
outside == <<monitor, memcap, call, ret, history, wrapper, estimator,
             cancelReason, registry, operands, growth, contexts>>

ST_SetMaxAllocs(max) ==
    /\ stage # "measuring"
    /\ maxAllocs' = max
    /\ stage' = "configuring"
    /\ UNCHANGED <<maxExecutionSteps, requiredSafety, safetyGiven, executionStepModel, passed>>
    /\ UNCHANGED <<measure, failed, reports, outside>>

ST_SetMaxExecutionSteps(max) ==
    /\ stage # "measuring"
    /\ maxExecutionSteps' = max
    /\ stage' = "configuring"
    /\ UNCHANGED <<maxAllocs, requiredSafety, safetyGiven, executionStepModel, passed>>
    /\ UNCHANGED <<measure, failed, reports, outside>>

\* RequireSafety replacing what was required.
ST_RequireSafetyAssigns(safety) ==
    /\ stage # "measuring"
    /\ requiredSafety' = safety
    /\ safetyGiven' = TRUE
    /\ passed' = BitOr(passed, safety)
    /\ stage' = "configuring"
    /\ UNCHANGED <<maxAllocs, maxExecutionSteps, executionStepModel>>
    /\ UNCHANGED <<measure, failed, reports, outside>>

ST_RequireSafety(safety) ==
    /\ stage # "measuring"
    /\ requiredSafety' = BitOr(requiredSafety, safety)
    /\ safetyGiven' = TRUE
    /\ passed' = BitOr(passed, safety)
    /\ stage' = "configuring"
    /\ UNCHANGED <<maxAllocs, maxExecutionSteps, executionStepModel>>
    /\ UNCHANGED <<measure, failed, reports, outside>>

ST_SetExecutionStepModel(code) ==
    /\ stage # "measuring"
    /\ executionStepModel' = code
    /\ stage' = "configuring"
    /\ UNCHANGED <<maxAllocs, maxExecutionSteps, requiredSafety, safetyGiven, passed>>
    /\ UNCHANGED <<measure, failed, reports, outside>>

\* RunThread up to the head of measureResources' loop: the default safety,
\* a new thread, the clock read, the sums at zero.
RunThread ==
    /\ stage # "measuring"
    /\ requiredSafety' = IF ~safetyGiven THEN stSafe ELSE requiredSafety
    /\ allocs' = 0
    /\ executionSteps' = 0
    /\ \E now \in Nanos : startNano' = now
    /\ elapsed' = 0
    /\ N' = 0
    /\ loopN' = 0
    /\ memorySum' = 0
    /\ modelStepSum' = 0
    /\ nSum' = 0
    /\ valueTrackerOverhead' = 0
    /\ stage' = "measuring"
    /\ UNCHANGED <<maxAllocs, maxExecutionSteps, safetyGiven, executionStepModel, passed>>
    /\ UNCHANGED <<failed, reports, outside>>

\* One round of measureResources' loop.  The step model, when CPU safety
\* is required and a model is set, is compiled and run on a thread of its
\* own and counts modelSteps; an error of either ends measureResources
\* with empty resources, and RunThread with it.  Otherwise the workload
\* runs on the tested thread: it declares declared units, counts counted
\* steps, may report an error, and leaves the heap grown by delta with
\* alive values tracked.  The round takes took nanoseconds.
measureResources(delta, alive, declared, counted, modelSteps, fails, took) ==
    /\ stage = "measuring"
    /\ LoopCondition(ClockNano(startNano, elapsed))
    /\ elapsed' = TimeAfter(elapsed, took)
    /\ LET next == NextN(loopN, N, memorySum)
           modelled == Contains(requiredSafety, CPUSafe) /\ executionStepModel # ""
       IN  IF modelled /\ executionStepModel # "model"
           THEN /\ loopN' = next
                /\ N' = next
                /\ failed' = TRUE
                /\ reports' = reports \cup {executionStepModel}
                /\ memorySum' = 0
                /\ modelStepSum' = 0
                /\ nSum' = 0
                /\ stage' = "aborted"
                /\ UNCHANGED <<valueTrackerOverhead, allocs, executionSteps>>
           ELSE /\ loopN' = next
                /\ N' = next
                /\ nSum' = WordAdd(nSum, next)
                /\ modelStepSum' = IF modelled THEN WordAdd(modelStepSum, modelSteps)
                                               ELSE modelStepSum
                /\ allocs' = WordAdd(allocs, declared)
                /\ executionSteps' = WordAdd(executionSteps, counted)
                /\ failed' = fails
                /\ reports' = IF fails THEN reports \cup {"workload"} ELSE reports
                /\ valueTrackerOverhead' =
                       WordAdd(valueTrackerOverhead, WordMul(alive, InterfaceSize))
                /\ memorySum' = AddMeasure(memorySum, delta)
                /\ stage' = "measuring"
    /\ UNCHANGED <<config, startNano, outside>>

\* The loop's exit, measureResources' return and the rest of RunThread: no
\* comparison after a failure, otherwise the means per N are compared and
\* every mismatch is reported.
RunThreadChecks ==
    /\ stage = "measuring"
    /\ ~LoopCondition(ClockNano(startNano, elapsed))
    /\ IF failed
       THEN /\ memorySum' = 0
            /\ modelStepSum' = 0
            /\ nSum' = 0
            /\ stage' = "aborted"
            /\ UNCHANGED <<failed, reports>>
       ELSE LET net == NetMemory(memorySum, valueTrackerOverhead)
                found == MemoryChecks(requiredSafety, maxAllocs,
                                      net \div nSum, allocs \div nSum)
                           \cup StepChecks(requiredSafety, maxExecutionSteps,
                                           executionSteps \div nSum,
                                           modelStepSum \div nSum)
            IN  /\ memorySum' = net
                /\ reports' = reports \cup found
                /\ failed' = (found # {})
                /\ stage' = "checked"
                /\ UNCHANGED <<modelStepSum, nSum>>
    /\ UNCHANGED <<config, N, loopN, valueTrackerOverhead, startNano, allocs,
                   executionSteps, elapsed, outside>>

InitHarness ==
    /\ NewMonitor
    /\ memcap = MemcapDefault
    /\ NewEstimator(Compiled(FALSE, << >>))
    /\ From
    /\ NoOthers

NextHarness ==
    \/ \E max \in Ceilings : ST_SetMaxAllocs(max) /\ UNCHANGED script
    \/ \E max \in Ceilings : ST_SetMaxExecutionSteps(max) /\ UNCHANGED script
    \/ \E safety \in SafetyArgs : ST_RequireSafety(safety) /\ UNCHANGED script
    \/ \E code \in Models : ST_SetExecutionStepModel(code) /\ UNCHANGED script
    \/ RunThread /\ UNCHANGED script
    \/ \E delta \in HeapDeltas, alive \in AliveCaps, declared \in Amounts,
          counted \in Amounts, modelSteps \in Amounts, fails \in BOOLEAN :
          /\ measureResources(delta, alive, declared, counted, modelSteps,
                              fails, timeMax \div 2)
          /\ UNCHANGED script
    \/ RunThreadChecks /\ UNCHANGED script

SpecHarness == InitHarness /\ [][NextHarness]_vars

\* The loop of measureResources alone, on an instance left as From made it:
\* rounds of a workload that declares and counts nothing, each taking half
\* a second or a second.
LoopRound ==
    \E delta \in HeapDeltas, alive \in AliveCaps, fails \in BOOLEAN,
       took \in RoundTimes :
       /\ measureResources(delta, alive, 0, 0, 0, fails, took)
       /\ UNCHANGED script

LoopExit == RunThreadChecks /\ UNCHANGED script

NextLoop ==
    \/ RunThread /\ UNCHANGED script
    \/ LoopRound
    \/ LoopExit

SpecLoop == InitHarness /\ [][NextLoop]_vars

\* The workload returns from every round it is called for, and RunThread
\* goes on when the loop is left.
SpecLoopFair == SpecLoop /\ WF_vars(LoopRound) /\ WF_vars(LoopExit)

\* ------------------------------------------------------------ safety sets
\* Safety values are combined with | and compared with Contains; here both
\* are applied to every pair of flag sets.

ApplySafety ==
    /\ ~operands.applied
    /\ operands' = SafetyPair(operands.a, operands.b,
                              BitOr(operands.a, operands.b),
                              Contains(operands.a, operands.b), TRUE)
    /\ UNCHANGED <<monitor, memcap, call, ret, history, wrapper, estimator,
                   harness, cancelReason, registry, growth, contexts, script>>

InitSafety ==
    /\ NewMonitor
    /\ memcap = MemcapDefault
    /\ NewEstimator(Compiled(FALSE, << >>))
    /\ From
    /\ NotCancelled
    /\ NoRegistry
    /\ NoGrowth
    /\ NoContexts
    /\ NoScript
    /\ \E a \in SafetySets, b \in SafetySets :
          operands = SafetyPair(a, b, 0, FALSE, FALSE)

NextSafety == ApplySafety

SpecSafety == InitSafety /\ [][NextSafety]_vars

\* ------------------------------------------------------ safety registry
\* A library module maps names to values, some of them built-ins that report
\* a Safety, and declares a Safety per name in a second map. The library's
\* tests compare the two maps.

Names == {"now", "parse_time"}

\* The safeties a built-in reports or a declaration names.
Declarable == {CPUSafe, MemSafe}

\* Module.Members[name]: absent, a value that is no built-in, or a built-in
\* reporting a safety.
Member(kind, safety) == [kind |-> kind, safety |-> safety]

MemberValues ==
    {Member("absent", 0), Member("value", 0)}
        \cup {Member("builtin", s) : s \in Declarable}

\* Safeties[name]: absent or a declared safety.
Declaration(declared, safety) == [declared |-> declared, safety |-> safety]

DeclarationValues ==
    {Declaration(FALSE, 0)} \cup {Declaration(TRUE, s) : s \in Declarable}

\* The names whose member is a *starlark.Builtin.
Builtins(members) == {name \in Names : members[name].kind = "builtin"}

\* The keys of a map of members.
Registered(members) == {name \in Names : members[name].kind # "absent"}

\* The keys of a map of declarations.
Declared(safeties) == {name \in Names : safeties[name].declared}

\* The errors TestModuleSafeties reports: its first loop skips members that
\* are no built-in and compares the others with their declaration, its
\* second loop looks each declared name up among the members.
ModuleSafetyErrors(members, safeties) ==
    {<<"has no safety declaration", name>> :
        name \in Builtins(members) \ Declared(safeties)}
    \cup {<<"has incorrect safety", name>> :
        name \in {b \in Builtins(members) \cap Declared(safeties) :
                     members[b].safety # safeties[b].safety}}
    \cup {<<"no method for safety declaration", name>> :
        name \in Declared(safeties) \ Registered(members)}

\* The errors TestMethodSafetiesExist reports: each method has a declaration
\* and each declaration a method.
MethodSafetyErrors(members, safeties) ==
    {<<"has no safety declaration", name>> :
        name \in Registered(members) \ Declared(safeties)}
    \cup {<<"no method for safety declaration", name>> :
        name \in Declared(safeties) \ Registered(members)}

TestModuleSafeties ==
    /\ registry.ran = ""
    /\ registry' = Registry(registry.members, registry.safeties,
                            ModuleSafetyErrors(registry.members,
                                               registry.safeties),
                            "TestModuleSafeties")
    /\ UNCHANGED <<monitor, memcap, call, ret, history, wrapper, estimator,
                   harness, cancelReason, operands, growth, contexts, script>>

\* The map of methods holds built-ins only.
TestMethodSafetiesExist ==
    /\ registry.ran = ""
    /\ \A name \in Names : registry.members[name].kind # "value"
    /\ registry' = Registry(registry.members, registry.safeties,
                            MethodSafetyErrors(registry.members,
                                               registry.safeties),
                            "TestMethodSafetiesExist")
    /\ UNCHANGED <<monitor, memcap, call, ret, history, wrapper, estimator,
                   harness, cancelReason, operands, growth, contexts, script>>

InitRegistry ==
    /\ NewMonitor
    /\ memcap = MemcapDefault
    /\ NewEstimator(Compiled(FALSE, << >>))
    /\ From
    /\ NotCancelled
    /\ NoOperands
    /\ NoGrowth
    /\ NoContexts
    /\ NoScript
    /\ \E members \in [Names -> MemberValues],
          safeties \in [Names -> DeclarationValues] :
          registry = Registry(members, safeties, {}, "")

NextRegistry ==
    \/ TestModuleSafeties
    \/ TestMethodSafetiesExist

SpecRegistry == InitRegistry /\ [][NextRegistry]_vars

\* ----------------------------------------------------------------- thread
\* A Thread owns one Monitor and a cancellation reason. Before each step the
\* interpreter asks whether the thread was cancelled and, if not, asks the
\* Monitor; it executes the step only when both allow it.

Reasons == {"deadline exceeded", "host shutdown"}

\* The thread is Cancelled, Failed (its Monitor latched), or still running.
Cancelled == cancelReason # ""

Failed == err # NoErr

Terminal == Cancelled \/ Failed

Cancel(reason) ==
    /\ cancelReason' = reason
    /\ call' = Call("Cancel", 0)
    /\ ret' = NoErr
    /\ UNCHANGED <<monitor, memcap, history, wrapper, estimator, harness,
                   registry, operands, growth, contexts, script>>

\* The check made before a step: cancellation first, then the Monitor.
StepCheck ==
    \/ /\ Cancelled
       /\ call' = Call("CheckUsage", 0)
       /\ ret' = CancelErr(cancelReason)
       /\ UNCHANGED <<monitor, memcap, history, wrapper, estimator, harness,
                      others>>
    \/ /\ ~Cancelled
       /\ CheckUsage

\* The step itself, executed when the check before it allowed it.
Step ==
    /\ call.name = "CheckUsage"
    /\ ret = NoErr
    /\ countStep

InitThread ==
    /\ NewMonitor
    /\ memcap = MemcapDefault
    /\ NewEstimator(Compiled(FALSE, << >>))
    /\ From
    /\ NoOthers

NextThread ==
    \/ \E max \in Caps : SetMaxExecutionSteps(max)
    \/ \E max \in Caps : SetLocationsCap(max)
    \/ initMonitor
    \/ Ready /\ StepCheck
    \/ Ready /\ Step
    \/ \E delta \in Deltas : Ready /\ DeclareSizeIncrease(delta)
    \/ \E reason \in Reasons : Cancel(reason)

SpecThread == InitThread /\ [][NextThread]_vars

\* ------------------------------------------------- interleaved contexts
\* Two execution contexts call countStep, DeclareSizeIncrease and
\* DeclareSizeDecrease on one Monitor, their reads and writes of its fields
\* interleaved.  steps++ is a read followed by a write; the counter of
\* locations is changed by an atomic add; the latch is read on entry and
\* written after the comparison.

ContextIds == {1, 2}

\* The context i at pc with the others as they are, and the net of deltas.
At(i, c, net) ==
    [of |-> [contexts.of EXCEPT ![i] = c], declared |-> net]

\* countStep: the read of mon.steps.
LoadSteps(i) ==
    /\ contexts.of[i].pc = "idle"
    /\ stepCalls < MaxStepCalls
    /\ stepCalls' = stepCalls + 1
    /\ contexts' = At(i, Context("countStep", 0, steps), contexts.declared)
    /\ UNCHANGED <<monitor, memcap, call, ret, made, incCalls, decCalls,
                   wrapper, estimator, harness, cancelReason, registry,
                   operands, growth, script>>

\* countStep: the write of mon.steps.
StoreSteps(i) ==
    /\ contexts.of[i].pc = "countStep"
    /\ steps' = WordAdd(contexts.of[i].loaded, 1)
    /\ contexts' = At(i, Idle, contexts.declared)
    /\ UNCHANGED <<maxSteps, locationsUsed, locationsCap, err, memcap, call,
                   ret, history, wrapper, estimator, harness, cancelReason,
                   registry, operands, growth, script>>

\* DeclareSizeIncrease and DeclareSizeDecrease: the test of mon.err on
\* entry; a latched Monitor returns.
EnterDeclare(i, name, delta) ==
    /\ contexts.of[i].pc = "idle"
    /\ IF name = "DeclareSizeIncrease"
       THEN /\ incCalls < MaxDeclares
            /\ incCalls' = incCalls + 1
            /\ UNCHANGED decCalls
       ELSE /\ decCalls < MaxDeclares
            /\ decCalls' = decCalls + 1
            /\ UNCHANGED incCalls
    /\ contexts' = At(i, IF err # NoErr THEN Idle ELSE Context(name, delta, 0),
                      contexts.declared)
    /\ UNCHANGED <<monitor, memcap, call, ret, made, stepCalls, wrapper,
                   estimator, harness, cancelReason, registry, operands,
                   growth, script>>

\* DeclareSizeIncrease: the atomic add.
AddLocations(i) ==
    /\ contexts.of[i].pc = "DeclareSizeIncrease"
    /\ locationsUsed' = WordAdd(locationsUsed, contexts.of[i].arg)
    /\ contexts' = At(i, Context("added", contexts.of[i].arg, 0),
                      contexts.declared + contexts.of[i].arg)
    /\ UNCHANGED <<steps, maxSteps, locationsCap, err, memcap, call, ret,
                   history, wrapper, estimator, harness, cancelReason,
                   registry, operands, growth, script>>

\* DeclareSizeIncrease: the comparison with the cap, and the latch.
CompareLocations(i) ==
    /\ contexts.of[i].pc = "added"
    /\ IF CapReached(locationsUsed, locationsCap)
       THEN /\ err' = MemErr(contexts.of[i].arg, made + 1)
            /\ made' = made + 1
       ELSE UNCHANGED <<err, made>>
    /\ contexts' = At(i, Idle, contexts.declared)
    /\ UNCHANGED <<steps, maxSteps, locationsUsed, locationsCap, memcap, call,
                   ret, stepCalls, incCalls, decCalls, wrapper, estimator,
                   harness, cancelReason, registry, operands, growth, script>>

\* DeclareSizeDecrease: the atomic add of -delta.
SubLocations(i) ==
    /\ contexts.of[i].pc = "DeclareSizeDecrease"
    /\ locationsUsed' = WordSub(locationsUsed, contexts.of[i].arg)
    /\ contexts' = At(i, Idle, contexts.declared - contexts.of[i].arg)
    /\ UNCHANGED <<steps, maxSteps, locationsCap, err, memcap, call, ret,
                   history, wrapper, estimator, harness, cancelReason,
                   registry, operands, growth, script>>

\* Both contexts are between calls.
Quiet == \A i \in ContextIds : contexts.of[i].pc = "idle"

NextInterleave ==
    \/ \E max \in Caps : Quiet /\ SetLocationsCap(max)
    \/ Quiet /\ initMonitor
    \/ \E i \in ContextIds : Ready /\ LoadSteps(i)
    \/ \E i \in ContextIds : StoreSteps(i)
    \/ \E i \in ContextIds, delta \in Deltas,
          name \in {"DeclareSizeIncrease", "DeclareSizeDecrease"} :
          Ready /\ EnterDeclare(i, name, delta)
    \/ \E i \in ContextIds : AddLocations(i)
    \/ \E i \in ContextIds : CompareLocations(i)
    \/ \E i \in ContextIds : SubLocations(i)

SpecInterleave == InitThread /\ [][NextInterleave]_vars

\* -------------------------------------------------------------- RunString
\* RunString compiles a script and hands RunThread a workload that executes
\* it; the workload keeps the script's error in codeErr and, once that is
\* set, returns without executing the script.

Codes == {"", "does not compile", "script"}

\* RunString up to the head of the measurement loop.
RunString(code) ==
    /\ ~script.running
    /\ script.returned = "none"
    /\ IF code = ""
       THEN /\ script' = Script(code, FALSE, FALSE, 0, "false")
            /\ UNCHANGED <<harness, outside>>
       ELSE IF code # "script"
       THEN /\ script' = Script(code, FALSE, FALSE, 0, "false")
            /\ failed' = TRUE
            /\ reports' = reports \cup {code}
            /\ UNCHANGED <<config, measure, stage, outside>>
       ELSE /\ script' = Script(code, TRUE, FALSE, 0, "none")
            /\ RunThread

\* One round of the loop on RunString's workload.  While codeErr is nil the
\* script is executed: it declares, may report a failure through the
\* reporter, and may return an error, which the workload keeps without
\* reporting it.  Afterwards the workload returns at once; the heap may
\* still differ between the round's two snapshots.
RunStringRound(delta, declared, fails, errs) ==
    /\ script.running
    /\ script.returned = "none"
    /\ IF script.codeErr
       THEN /\ measureResources(delta, 0, 0, 0, 0, FALSE, timeMax \div 2)
            /\ UNCHANGED script
       ELSE /\ measureResources(delta, 0, declared, 0, 0, fails,
                                timeMax \div 2)
            /\ script' = Script(script.code, TRUE, errs, script.runs + 1,
                                "none")

\* RunThread's return inside RunString.
RunStringChecks ==
    /\ script.running
    /\ script.returned = "none"
    /\ RunThreadChecks
    /\ UNCHANGED script

\* RunString after RunThread has returned: codeErr is reported, and the
\* result is whether it is nil.
RunStringReturn ==
    /\ script.running
    /\ script.returned = "none"
    /\ stage \in {"checked", "aborted"}
    /\ script' = Script(script.code, FALSE, script.codeErr, script.runs,
                        IF script.codeErr THEN "false" ELSE "true")
    /\ failed' = (failed \/ script.codeErr)
    /\ reports' = IF script.codeErr THEN reports \cup {"script error"}
                                    ELSE reports
    /\ UNCHANGED <<config, measure, stage, outside>>

NextString ==
    \/ \E code \in Codes : RunString(code)
    \/ \E delta \in HeapDeltas, declared \in Amounts, fails \in BOOLEAN,
          errs \in BOOLEAN : RunStringRound(delta, declared, fails, errs)
    \/ RunStringChecks
    \/ RunStringReturn

SpecString == InitHarness /\ [][NextString]_vars

\* ------------------------------------------------------- repeat count
\* The computation of the next repeat count at the head of a round, taken
\* alone with a budget and a ceiling large enough for each of its limits to
\* be the one that decides.

\* The largest last count and the largest memory sum tried.
MaxLast == 3

MaxMemory == 3

\* A memory budget and a ceiling on n above a hundredfold growth of 1.
GrowthBudget == 100

GrowthCeiling == 150

Lasts == 0 .. MaxLast

Memories == (0 .. MaxMemory) \cup {GrowthBudget}

Budgets == {memoryMax, GrowthBudget}

GrowthCeilings == {nMax, GrowthCeiling}

\* The head of a round: n is computed and stored in st.N.
ComputeN ==
    /\ ~growth.applied
    /\ LET next == GrowN(growth.last, growth.prevIters, growth.memory,
                         growth.budget, growth.ceiling)
       IN  growth' = Growth(growth.last, growth.prevIters, growth.memory,
                            growth.budget, growth.ceiling, next, next, TRUE)
    /\ UNCHANGED <<monitor, memcap, call, ret, history, wrapper, estimator,
                   harness, cancelReason, registry, operands, contexts, script>>

\* The loop is entered with n below the ceiling and st.N the last n.
InitGrowth ==
    /\ NewMonitor
    /\ memcap = MemcapDefault
    /\ NewEstimator(Compiled(FALSE, << >>))
    /\ From
    /\ NotCancelled
    /\ NoRegistry
    /\ NoOperands
    /\ NoContexts
    /\ NoScript
    /\ \E last \in Lasts, memory \in Memories, budget \in Budgets,
          ceiling \in GrowthCeilings :
          /\ last < ceiling
          /\ growth = Growth(last, last, memory, budget, ceiling, 0, 0, FALSE)

NextGrowth == ComputeN

SpecGrowth == InitGrowth /\ [][NextGrowth]_vars

\* ----------------------------------------------------------------- claims

Setters == {"SetMaxExecutionSteps", "SetLocationsCap"}

Checks == {"CheckUsage", "DeclareSizeIncrease"}

\* C1: once a quota error is latched, every later CheckUsage and
\* DeclareSizeIncrease returns that same error value, no later call changes
\* locationsUsed, and no call (the setters, initMonitor and countStep
\* included) clears or replaces the latched error.
StickyLatch ==
    [][err # NoErr =>
          /\ err' = err
          /\ locationsUsed' = locationsUsed
          /\ made' = made
          /\ (call'.name \in Checks => ret' = err)]_vars

\* C1's case: a memory declaration made on a Monitor that CheckUsage had
\* latched earlier is answered with the step error.
StickyLatchWitness ==
    /\ call.name = "DeclareSizeIncrease"
    /\ call.arg > 0
    /\ err.kind = "too many steps"
    /\ ret = err

\* C2 as stated: a cap setter called after at least one countStep call, or
\* after at least one DeclareSizeIncrease call, fails with a configuration
\* error and leaves the cap unchanged.
CapGuardAfterAnyUse ==
    [][(call'.name \in Setters /\ (stepCalls > 0 \/ incCalls > 0)) =>
          /\ ret'.kind \in ConfigKinds
          /\ maxSteps' = maxSteps
          /\ locationsCap' = locationsCap]_vars

\* C2 as amended: a cap setter called after at least one countStep call
\* fails with a configuration error and leaves both caps unchanged; a
\* DeclareSizeIncrease call alone does not put the Monitor in use.
CapGuardAfterStep ==
    [][(call'.name \in Setters /\ stepCalls > 0) =>
          /\ ret' = (IF call'.name = "SetLocationsCap" THEN ConfigCapErr ELSE ConfigStepsErr)
          /\ maxSteps' = maxSteps
          /\ locationsCap' = locationsCap]_vars

\* C2's case: SetLocationsCap rejected after one countStep, with a cap that
\* differs from the configured one.
CapGuardWitness ==
    /\ call.name = "SetLocationsCap"
    /\ stepCalls = 1
    /\ call.arg # locationsCap
    /\ ret = ConfigCapErr

\* C3 as stated, for the step counter: in every reachable state in which no
\* error is latched, steps <= maxSteps, and the latch is set at most once.
\* (The memory half, locationsUsed <= locationsCap, fails as well: after a
\* SetLocationsCap below the counter.)
QuotaInvariant ==
    /\ err = NoErr => steps <= maxSteps
    /\ made <= 1

\* C3 as amended: right after a CheckUsage that returned no error,
\* steps <= maxSteps; right after a DeclareSizeIncrease that returned no
\* error, locationsUsed <= locationsCap; and the latch is set at most once
\* (it holds an error exactly when one error has been constructed).
QuotaAfterCheck ==
    /\ (call.name = "CheckUsage" /\ ret = NoErr) =>
          (err = NoErr /\ steps <= maxSteps)
    /\ (call.name = "DeclareSizeIncrease" /\ ret = NoErr) =>
          (err = NoErr /\ locationsUsed <= locationsCap)
    /\ made <= 1
    /\ (err = NoErr) <=> (made = 0)
    /\ err # NoErr => err.id = 1

\* C3's case: a declaration that passed its check with a non-zero counter.
QuotaAfterCheckWitness ==
    /\ call.name = "DeclareSizeIncrease"
    /\ ret = NoErr
    /\ locationsUsed > 0
    /\ stepCalls > 0

\* C4: DeclareSizeIncrease(delta) on an unlatched Monitor adds delta to
\* locationsUsed (in word arithmetic, also when it fails), returns no error
\* when the new total is below locationsCap, and latches and returns a
\* "too much memory" error naming delta exactly when the new total meets or
\* exceeds locationsCap.
IncreaseContract ==
    [][(call'.name = "DeclareSizeIncrease" /\ err = NoErr) =>
          /\ locationsUsed' = WordAdd(locationsUsed, call'.arg)
          /\ locationsCap' = locationsCap
          /\ IF locationsUsed' >= locationsCap
             THEN /\ ret'.kind = "too much memory"
                  /\ ret'.delta = call'.arg
                  /\ err' = ret'
             ELSE /\ ret' = NoErr
                  /\ err' = NoErr]_vars

\* C4's case: a failed declaration whose attempted delta shows in the
\* counter, the total meeting the cap exactly.
IncreaseContractWitness ==
    /\ call.name = "DeclareSizeIncrease"
    /\ call.arg > 0
    /\ ret.kind = "too much memory"
    /\ err = ret
    /\ locationsUsed = locationsCap

\* C5 as stated: CheckUsage on an unlatched Monitor returns an error
\* exactly when steps > maxSteps; otherwise it returns no error and
\* changes nothing; when it fails it latches the "too many steps" error.
CheckUsageOnlyWhenExceeded ==
    [][(call'.name = "CheckUsage" /\ err = NoErr) =>
          IF steps > maxSteps
          THEN /\ ret'.kind = "too many steps"
               /\ err' = ret'
          ELSE /\ ret' = NoErr
               /\ monitor' = monitor]_vars

\* C6: DeclareSizeDecrease never sets and never clears the latch; on an
\* unlatched Monitor it subtracts delta from locationsUsed (in word
\* arithmetic) and changes no other field; on a latched Monitor it leaves
\* every field unchanged.
DecreaseFrame ==
    [][call'.name = "DeclareSizeDecrease" =>
          /\ err' = err
          /\ made' = made
          /\ steps' = steps
          /\ maxSteps' = maxSteps
          /\ locationsCap' = locationsCap
          /\ locationsUsed' = (IF err = NoErr
                               THEN WordSub(locationsUsed, call'.arg)
                               ELSE locationsUsed)]_vars

\* C6's case: a non-zero decrease on a latched Monitor whose counter is
\* not zero.
DecreaseFrameWitness ==
    /\ call.name = "DeclareSizeDecrease"
    /\ call.arg > 0
    /\ err # NoErr
    /\ locationsUsed > 0

\* C7: a rejected SetMaxExecutionSteps or SetLocationsCap returns a
\* configuration error and leaves steps, locationsUsed, both caps and the
\* latch unchanged, so the check that follows it answers as it would have
\* without the rejected call.
ConfigErrorNotLatched ==
    [][(call'.name \in Setters /\ ret' # NoErr) =>
          /\ ret'.kind \in ConfigKinds
          /\ monitor' = monitor
          /\ made' = made
          /\ \A d \in Deltas :
                IncreaseOutcome(locationsUsed', locationsCap', err', made', d)
                    = IncreaseOutcome(locationsUsed, locationsCap, err, made, d)
          /\ StepsExhausted(steps', maxSteps') = StepsExhausted(steps, maxSteps)]_vars

\* C7's case: a rejected setter, with a value that differs from the cap in
\* place, on a Monitor with no error latched.
ConfigErrorWitness ==
    /\ call.name = "SetMaxExecutionSteps"
    /\ ret = ConfigStepsErr
    /\ call.arg # maxSteps
    /\ err = NoErr

\* C8: after initMonitor, a memory cap that was 0 (not configured) equals
\* the process default (MemcapDefault unless overridden), or the maximum
\* word when that default is 0; a step cap that was 0 equals the maximum
\* word; a non-zero configured cap is unchanged.
DefaultCaps ==
    [][call'.name = "initMonitor" =>
          /\ locationsCap' = (IF locationsCap # 0 THEN locationsCap
                              ELSE IF memcap # 0 THEN memcap
                              ELSE MaxWord)
          /\ maxSteps' = (IF maxSteps # 0 THEN maxSteps ELSE MaxWord)
          /\ locationsCap' # 0
          /\ maxSteps' # 0]_vars

\* C8's case: initMonitor on a Monitor with no cap configured, under the
\* flag's default: the memory cap is the default, the step cap the maximum.
DefaultCapsWitness ==
    /\ call.name = "initMonitor"
    /\ memcap = MemcapDefault
    /\ locationsCap = MemcapDefault
    /\ maxSteps = MaxWord

\* C8's other cases: a configured memory cap is kept, and a flag of 0
\* leaves the maximum word.
DefaultCapsConfigured ==
    /\ call.name = "initMonitor"
    /\ locationsCap = MaxCap
    /\ maxSteps = MaxWord

DefaultCapsFlagZero ==
    /\ call.name = "initMonitor"
    /\ memcap = 0
    /\ locationsCap = MaxWord

\* The pre-declaration of the last wrapper call failed: the estimate was
\* non-zero and the Monitor was latched, or the estimate took the counter
\* to the cap or beyond.
PreDeclareFails ==
    /\ call.name = "AccountAllocsForOperation"
    /\ given.prealloc # 0
    /\ \/ given.err # NoErr
       \/ WordAdd(given.used, given.prealloc) >= locationsCap

\* C9: when the pre-declared estimate is non-zero and declaring it fails,
\* the wrapper returns a nil result and the quota error (the latched one),
\* and the operation is invoked zero times.
PreDeclareFailure ==
    PreDeclareFails =>
        /\ result = "nil"
        /\ ret.kind \in QuotaKinds
        /\ ret = err
        /\ opDone = 0
        /\ given.err # NoErr => (ret = given.err /\ locationsUsed = given.used)
        /\ given.err = NoErr =>
              (ret.kind = "too much memory" /\ ret.delta = given.prealloc)

\* C9's case: an estimate that takes an unlatched Monitor exactly to its
\* cap, for an operation that would have succeeded.
PreDeclareFailureWitness ==
    /\ PreDeclareFails
    /\ given.err = NoErr
    /\ ~given.fails
    /\ WordAdd(given.used, given.prealloc) = locationsCap

\* The last wrapper call ran a successful operation on an unlatched
\* Monitor, its pre-declaration passed, and the measured size is above the
\* estimate and takes the counter to the cap or beyond.
PostDeclareFails ==
    /\ call.name = "AccountAllocsForOperation"
    /\ given.err = NoErr
    /\ ~given.fails
    /\ given.sizer
    /\ given.size > given.prealloc
    /\ WordAdd(given.used, given.prealloc) < locationsCap
    /\ WordAdd(given.used, given.size) >= locationsCap

\* C10: when the operation succeeds but declaring the measured size (the
\* Sizer's result minus the estimate) fails, the wrapper returns a nil
\* result and the latched memory error, the operation ran exactly once, and
\* the allocation counter shows the attempted total.
PostDeclareFailure ==
    PostDeclareFails =>
        /\ result = "nil"
        /\ ret.kind = "too much memory"
        /\ ret.delta = given.size - given.prealloc
        /\ ret = err
        /\ opDone = 1
        /\ locationsUsed = WordAdd(given.used, given.size)

\* C10's case, the scenario of the test suite scaled down: cap 1, estimate
\* 0, measured size 2 on a fresh thread; the counter shows 2.
PostDeclareFailureWitness ==
    /\ PostDeclareFails
    /\ locationsCap = 1
    /\ given.prealloc = 0
    /\ given.used = 0
    /\ given.size = 2
    /\ locationsUsed = 2

\* The last call was a wrapper call on a fresh thread (nothing declared, no
\* error latched) that returned no error for an operation that succeeded.
FreshSuccess ==
    /\ call.name = "AccountAllocsForOperation"
    /\ given.used = 0
    /\ given.err = NoErr
    /\ ~given.fails
    /\ ret = NoErr

\* C11: after a successful wrapped operation on a fresh thread the
\* allocation counter equals the size the Sizer measured when a Sizer is
\* supplied (for estimates below and above it), and the estimate when none
\* is; it never equals estimate plus measured size.
Reconciliation ==
    FreshSuccess =>
        /\ result = "value"
        /\ locationsUsed = (IF given.sizer THEN given.size ELSE given.prealloc)
        /\ (given.sizer /\ given.prealloc > 0 /\ given.size > 0) =>
              locationsUsed # given.prealloc + given.size

\* C11's case, the over-estimate of the test suite scaled down: estimate 2,
\* measured size 1; the counter ends at 1, not at 3.
ReconciliationWitness ==
    /\ FreshSuccess
    /\ given.sizer
    /\ given.prealloc = 2
    /\ given.size = 1
    /\ locationsUsed = 1

\* C11's other case: an estimate below the measured size.
ReconciliationIncrease ==
    /\ FreshSuccess
    /\ given.sizer
    /\ given.prealloc = 1
    /\ given.size = 2
    /\ locationsUsed = 2

\* C12: the wrapper runs the operation at most once per call, and exactly
\* once whenever the pre-declaration did not fail (also when the estimate
\* is zero).
OperationOnce ==
    call.name = "AccountAllocsForOperation" =>
        /\ opDone \in {0, 1}
        /\ (opDone = 1) <=> ~PreDeclareFails

\* C12's case: an estimate of zero on a latched Monitor: nothing is
\* pre-declared, so the operation runs once.
OperationOnceWitness ==
    /\ call.name = "AccountAllocsForOperation"
    /\ given.prealloc = 0
    /\ given.err # NoErr
    /\ opDone = 1

Walked == estCall = NoEstCall /\ estRet # NoEstRet /\ estRet.err = NoErr

\* C14: for a snippet that compiles and n >= 0, EstimateIterSteps(code, n)
\* is n * EstimateSteps(code) + n * 6, in the arithmetic of uint64.
IterLaw ==
    (/\ estRet.name = "EstimateIterSteps"
     /\ estRet.err = NoErr
     /\ single.name = "EstimateSteps"
     /\ single.err = NoErr)
        => estRet.value = WordAdd(WordMul(estRet.n, single.value),
                                  WordMul(estRet.n, iterOverhead))

\* C14's case: a snippet of four instructions is estimated at 1 step, and
\* a loop of 2 iterations over it at 2 * 1 + 2 * 6.
IterLawWitness ==
    /\ estRet = EstRet("EstimateIterSteps", 2, 14, NoErr, FALSE)
    /\ single = EstRet("EstimateSteps", 0, 1, NoErr, FALSE)

\* C15: the walk counts one step an instruction, never an operand byte,
\* and ends with pc at the end of the stream.
WalkCounts ==
    Walked =>
        /\ byteCode = Encode(snippet.instrs)
        /\ stepsCounted = Len(snippet.instrs)
        /\ pc = Len(byteCode)

\* C15's case: a stream whose first instruction has an operand of three
\* bytes, two of them with the high bit set: 3 instructions in 6 bytes.
WalkCountsWitness ==
    /\ Walked
    /\ snippet.instrs = << Insn(OpcodeArgMin, HighBit * HighBit) >> \o WrapUp
    /\ Len(byteCode) = 6
    /\ stepsCounted = 3

\* C16: EstimateSteps returns the instruction count less 3, never more
\* than the instruction count (no wrap-around).
NoWrapAround ==
    (estRet.name = "EstimateSteps" /\ estRet.err = NoErr) =>
        /\ estRet.value = Len(snippet.instrs) - snippetOverhead
        /\ estRet.value <= Len(snippet.instrs)

\* C17: two EstimateSteps calls on the same source return the same: every
\* return of EstimateSteps equals the one before it.
Deterministic ==
    [][(single # NoEstRet /\ single'.name = "EstimateSteps") => single' = single]_vars

\* C17's case: EstimateSteps has returned a second time on a snippet of
\* two instructions with operands.
DeterministicWitness ==
    /\ repeated
    /\ estRet = single
    /\ estRet.name = "EstimateSteps"
    /\ estRet.value = 1
    /\ Len(byteCode) > Len(snippet.instrs)

\* C18: when the snippet does not compile no stream is walked,
\* EstimateSteps and EstimateIterSteps (for every n) return 0 with the
\* estimation error, and the Must functions panic with it.
CompileFailure ==
    ~snippet.ok =>
        /\ estCall = NoEstCall
        /\ byteCode = << >> /\ pc = 0 /\ stepsCounted = 0
        /\ estRet # NoEstRet =>
              /\ estRet.value = 0
              /\ estRet.err = EstimateErr
              /\ estRet.panic <=> estRet.name \in Musts

\* C18's case: MustEstimateIterSteps(code, 2) panicked with the error.
CompileFailureWitness ==
    /\ ~snippet.ok
    /\ estRet = EstRet("MustEstimateIterSteps", 2, 0, EstimateErr, TRUE)

\* C18's other cases: the error-returning functions return 0 and the error.
CompileFailureReturned ==
    /\ ~snippet.ok
    /\ estRet = EstRet("EstimateIterSteps", 1, 0, EstimateErr, FALSE)
    /\ single = EstRet("EstimateSteps", 0, 0, EstimateErr, FALSE)

\* The last RunThread reached its comparisons: no failure was recorded when
\* measureResources returned.
Compared == stage = "checked"

\* C19: when memory safety is required and no failure was recorded,
\* RunThread reports an error if the mean declared allocations per N exceed
\* the ceiling and, independently, one if the mean measured memory per N
\* exceeds the mean declared; when memory safety is not required it
\* reports neither.
MemoryTwoSided ==
    Compared =>
        LET meanMeasured == memorySum \div nSum
            meanDeclared == allocs \div nSum
        IN  IF Contains(requiredSafety, MemSafe)
            THEN /\ "declared allocations are above maximum" \in reports
                        <=> meanDeclared > maxAllocs
                 /\ "measured memory is above declared allocations" \in reports
                        <=> meanMeasured > meanDeclared
            ELSE /\ "declared allocations are above maximum" \notin reports
                 /\ "measured memory is above declared allocations" \notin reports

\* C19's case: under-declaring alone: the declared mean is within the
\* unbounded ceiling, the measured mean is above the declared one.
MemoryTwoSidedWitness ==
    /\ Compared
    /\ Contains(requiredSafety, MemSafe)
    /\ maxAllocs = MaxWord
    /\ memorySum \div nSum > allocs \div nSum
    /\ reports = {"measured memory is above declared allocations"}

\* C19's other cases: the declared mean above the ceiling with nothing
\* measured above it, and an under-declaration that goes unreported
\* because memory safety is not required.
MemoryAboveCeiling ==
    /\ Compared
    /\ allocs \div nSum > maxAllocs
    /\ memorySum \div nSum <= allocs \div nSum
    /\ reports = {"declared allocations are above maximum"}

MemoryNotRequired ==
    /\ Compared
    /\ ~Contains(requiredSafety, MemSafe)
    /\ memorySum \div nSum > allocs \div nSum
    /\ reports = {}

\* C20: when CPU safety is required and no failure was recorded, RunThread
\* reports an error if the model's mean steps per N exceed the step ceiling
\* and, independently, one if they exceed the tested thread's mean counted
\* steps per N; when CPU safety is not required, or no model is set, it
\* reports neither.
StepsTwoSided ==
    Compared =>
        LET meanModel == modelStepSum \div nSum
            meanExecutionSteps == executionSteps \div nSum
        IN  IF Contains(requiredSafety, CPUSafe) /\ executionStepModel # ""
            THEN /\ "model execution steps are above maximum" \in reports
                        <=> meanModel > maxExecutionSteps
                 /\ "model execution steps are above declared execution steps" \in reports
                        <=> meanModel > meanExecutionSteps
            ELSE /\ "model execution steps are above maximum" \notin reports
                 /\ "model execution steps are above declared execution steps" \notin reports

\* C20's case: the model's mean is within the unbounded ceiling and above
\* the mean the tested thread counted.
StepsTwoSidedWitness ==
    /\ Compared
    /\ Contains(requiredSafety, CPUSafe)
    /\ executionStepModel = "model"
    /\ maxExecutionSteps = MaxWord
    /\ modelStepSum \div nSum > executionSteps \div nSum
    /\ reports = {"model execution steps are above declared execution steps"}

\* C20's other cases: the model's mean above the ceiling and not above the
\* counted mean; CPU safety required and no model set, the tested thread
\* counting steps; a model set and CPU safety not required.
StepsAboveCeiling ==
    /\ Compared
    /\ modelStepSum \div nSum > maxExecutionSteps
    /\ modelStepSum \div nSum <= executionSteps \div nSum
    /\ "model execution steps are above maximum" \in reports
    /\ "model execution steps are above declared execution steps" \notin reports

StepsNoModel ==
    /\ Compared
    /\ Contains(requiredSafety, CPUSafe)
    /\ executionStepModel = ""
    /\ executionSteps > 0
    /\ reports = {}

StepsNotRequired ==
    /\ Compared
    /\ ~Contains(requiredSafety, CPUSafe)
    /\ executionStepModel = "model"
    /\ modelStepSum = 0
    /\ reports = {}

\* C21: whatever safety is required, RunThread reports 'measured memory is
\* above maximum' exactly when a ceiling is set and the mean measured
\* memory per N is greater than it: never with the default ceiling, and
\* for any positive mean with ceiling 0.
MeasuredCeiling ==
    Compared =>
        /\ "measured memory is above maximum" \in reports
               <=> (maxAllocs # MaxWord /\ memorySum \div nSum > maxAllocs)
        /\ maxAllocs = MaxWord => "measured memory is above maximum" \notin reports
        /\ (maxAllocs = 0 /\ memorySum \div nSum > 0)
               => "measured memory is above maximum" \in reports

\* C21's case: ceiling 0, memory safety not required, a positive measured
\* mean: reported, and nothing else is.
MeasuredCeilingWitness ==
    /\ Compared
    /\ maxAllocs = 0
    /\ ~Contains(requiredSafety, MemSafe)
    /\ memorySum \div nSum > 0
    /\ reports = {"measured memory is above maximum"}

\* C21's other cases: a positive mean under the default ceiling, and a
\* mean of zero under ceiling 0, neither reported.
MeasuredUnbounded ==
    /\ Compared
    /\ maxAllocs = MaxWord
    /\ Contains(requiredSafety, MemSafe)
    /\ memorySum \div nSum > 0
    /\ "measured memory is above maximum" \notin reports

MeasuredAtCeiling ==
    /\ Compared
    /\ maxAllocs = 0
    /\ memorySum > 0
    /\ memorySum \div nSum = 0
    /\ "measured memory is above maximum" \notin reports

\* C22: in every RunThread call, whatever RequireSafety and RunThread calls
\* came before on the instance, the tested thread is required the full
\* four-flag set if RequireSafety was never called and otherwise exactly
\* the union of the sets passed to RequireSafety.
RequiredIsPassed ==
    stage = "measuring" =>
        requiredSafety = (IF safetyGiven THEN passed ELSE stSafe)

\* C23: Contains(a, b) is true exactly when every flag of b is in a, and
\* the union of a and b contains a and contains b.
SafetyLaws ==
    operands.applied =>
        /\ operands.contains
               <=> \A flag \in Flags :
                       HasFlag(operands.b, flag) => HasFlag(operands.a, flag)
        /\ Contains(operands.union, operands.a)
        /\ Contains(operands.union, operands.b)

\* C23's case: two sets that share a flag and contain neither the other.
SafetyLawsWitness ==
    /\ operands.applied
    /\ operands.a = CPUSafe + MemSafe
    /\ operands.b = CPUSafe + TimeSafe
    /\ ~operands.contains
    /\ operands.union = CPUSafe + MemSafe + TimeSafe

\* C23's other case: a set that contains the other.
SafetyLawsContained ==
    /\ operands.applied
    /\ operands.a = CPUSafe + MemSafe
    /\ operands.b = MemSafe
    /\ operands.contains
    /\ operands.union = operands.a

\* C24: Safe (safetyFlagsLimit - 1) and stSafe equal the union of the
\* four named flags and contain every flag set.
AllFlags ==
    /\ Safe = BitOr(BitOr(CPUSafe, MemSafe), BitOr(TimeSafe, IOSafe))
    /\ stSafe = Safe
    /\ \A flag \in Flags : HasFlag(Safe, flag)
    /\ Contains(stSafe, operands.a)
    /\ Contains(stSafe, operands.b)
    /\ Contains(Safe, operands.a)
    /\ Contains(Safe, operands.b)
    /\ operands.applied => Contains(Safe, operands.union)

\* C24's case: two sets, neither of them Safe, whose union is Safe.
AllFlagsWitness ==
    /\ operands.applied
    /\ operands.a = CPUSafe + IOSafe
    /\ operands.b = MemSafe + TimeSafe
    /\ operands.union = Safe
    /\ operands.union = stSafe

\* C25: required safety only grows: every flag required before a step is
\* required after it, whatever the step.
RequiredMonotonic ==
    [][Contains(requiredSafety', requiredSafety)]_vars

\* C25's case: RequireSafety was called for one flag and then for another;
\* both are required.
RequiredMonotonicWitness ==
    /\ stage = "configuring"
    /\ safetyGiven
    /\ passed = CPUSafe + MemSafe
    /\ requiredSafety = CPUSafe + MemSafe

\* What the consistency check is to establish: the built-ins registered are
\* the names declared, and each declaration is the safety the built-in
\* reports.
Consistent(members, safeties) ==
    /\ Builtins(members) = Declared(safeties)
    /\ \A name \in Declared(safeties) :
          members[name].safety = safeties[name].safety

\* C26: a consistency test that ran reported no error exactly when the
\* registered built-ins are the declared names and every declaration equals
\* the safety its built-in reports.
RegistryChecked ==
    registry.ran # "" =>
        (registry.errors = {}
            <=> Consistent(registry.members, registry.safeties))

\* C27: a thread that is Failed or Cancelled stays so; a step check made on
\* it changes no counter, no latch and no reason, and returns the terminal
\* failure, which for a cancelled thread carries the stored reason; and no
\* step is executed on it.
TerminalThread ==
    [][Terminal =>
          /\ Terminal'
          /\ (Cancelled => Cancelled')
          /\ (Failed => err' = err)
          /\ steps' = steps
          /\ (StepCheck =>
                /\ UNCHANGED <<steps, locationsUsed, err, made, cancelReason>>
                /\ ret' = IF Cancelled THEN CancelErr(cancelReason) ELSE err
                /\ ret' # NoErr)]_vars

\* C27's case: a step check on a thread that was cancelled after its Monitor
\* had latched on memory surfaces the reason of the cancellation.
TerminalThreadWitness ==
    /\ call.name = "CheckUsage"
    /\ Cancelled
    /\ err.kind = "too much memory"
    /\ ret = CancelErr(cancelReason)

\* C27's other case: a step check on a thread that was never cancelled and
\* whose Monitor latched on memory returns the latched error.
TerminalThreadFailed ==
    /\ call.name = "CheckUsage"
    /\ ~Cancelled
    /\ err.kind = "too much memory"
    /\ ret = err

\* A round of measureResources' loop begins in this step: the loop goes on,
\* or the round's step model records the failure that ends RunThread.
RoundBegins ==
    /\ stage = "measuring"
    /\ \/ stage' = "measuring"
       \/ stage' = "aborted" /\ failed' # failed

\* C29: no round of the measurement loop begins once the wall-clock ceiling
\* of one second has elapsed since measureResources read the clock.
RoundsWithinTimeMax ==
    [][RoundBegins => elapsed < timeMax]_vars

RoundsEndOnFailure ==
    /\ stage = "aborted"
    /\ failed
    /\ loopN < nMax
    /\ "workload" \in reports

\* ... it has ended on the memory ceiling below the repeat ceiling.
RoundsEndOnMemory ==
    /\ Compared
    /\ loopN < nMax
    /\ memorySum >= memoryMax

\* The smaller of two numbers.
Smaller(a, b) == IF a < b THEN a ELSE b

\* C31: the first round runs with N = 1; in a later round the new N is at
\* least the previous N plus one and at most the smaller of a hundred times
\* the previous N and the ceiling, whatever the memory sum; st.N is that N.
RepeatClamp ==
    growth.applied =>
        /\ growth.N = growth.n
        /\ growth.last = 0 => growth.n = 1
        /\ growth.last > 0 =>
              /\ growth.last + 1 <= growth.n
              /\ growth.n <= Smaller(100 * growth.last, growth.ceiling)

\* C31's case: the estimate from the memory sum is above a hundredfold
\* growth, which is below the ceiling: the hundredfold growth is taken.
RepeatClampWitness ==
    /\ growth.applied
    /\ growth.last = 1
    /\ growth.memory = 1
    /\ growth.budget = GrowthBudget
    /\ growth.ceiling > 100
    /\ growth.n = 100

\* ... the estimate is below the previous N plus one, which is taken.
RepeatClampMinimum ==
    /\ growth.applied
    /\ growth.last = 2
    /\ growth.memory = GrowthBudget
    /\ growth.n = 3

\* ... the estimate lies between the two limits and is taken.
RepeatClampEstimate ==
    /\ growth.applied
    /\ growth.last = 1
    /\ growth.memory = 2
    /\ growth.budget = GrowthBudget
    /\ growth.n > 2
    /\ growth.n < 100

\* ... the ceiling is below the hundredfold growth and is taken.
RepeatClampCeiling ==
    /\ growth.applied
    /\ growth.last = 2
    /\ growth.memory = 1
    /\ growth.n = growth.ceiling
    /\ growth.ceiling > 100

\* C32: from one round of the measurement loop to the next the memory sum
\* stays as it is or grows by a positive heap delta; it never decreases.
MemoryOnlyGrows ==
    [][(stage = "measuring" /\ stage' = "measuring") =>
          /\ memorySum' >= memorySum
          /\ memorySum' - memorySum \in {0} \cup {d \in HeapDeltas : d > 0}]_vars

\* C32's case: of two rounds one grew the heap by 1 and the other shrank
\* it; the sum is 1.
MemoryOnlyGrowsWitness ==
    /\ stage = "measuring"
    /\ loopN = 2
    /\ nSum = 3
    /\ memorySum = 1

\* The messages of RunThread's six comparisons.
Mismatches ==
    {"measured memory is above maximum",
     "declared allocations are above maximum",
     "measured memory is above declared allocations",
     "declared execution steps are above maximum",
     "model execution steps are above maximum",
     "model execution steps are above declared execution steps"}

\* C33: a RunThread call that reaches its comparisons reports every one of
\* the six that is violated, whatever the others found, and nothing else,
\* and returns; a comparison is made when its safety is required, the two
\* against the measured and the counted ceilings always.
AllMismatches ==
    Compared =>
        LET meanMeasured == memorySum \div nSum
            meanDeclared == allocs \div nSum
            meanExecutionSteps == executionSteps \div nSum
            meanModel == modelStepSum \div nSum
            mem == Contains(requiredSafety, MemSafe)
            cpu == Contains(requiredSafety, CPUSafe)
            Violated(msg) ==
                CASE msg = "measured memory is above maximum" ->
                         maxAllocs # MaxWord /\ meanMeasured > maxAllocs
                  [] msg = "declared allocations are above maximum" ->
                         mem /\ meanDeclared > maxAllocs
                  [] msg = "measured memory is above declared allocations" ->
                         mem /\ meanMeasured > meanDeclared
                  [] msg = "declared execution steps are above maximum" ->
                         maxExecutionSteps # MaxWord
                             /\ meanExecutionSteps > maxExecutionSteps
                  [] msg = "model execution steps are above maximum" ->
                         cpu /\ meanModel > maxExecutionSteps
                  [] msg = "model execution steps are above declared execution steps" ->
                         cpu /\ meanModel > meanExecutionSteps
                  [] OTHER -> FALSE
        IN  /\ \A msg \in Mismatches : msg \in reports <=> Violated(msg)
            /\ reports \subseteq Mismatches
            /\ failed <=> reports # {}

\* C33's case: one call reported all three memory mismatches and two step
\* mismatches.
AllMismatchesWitness ==
    /\ Compared
    /\ Cardinality(reports) = 5
    /\ "measured memory is above maximum" \in reports
    /\ "declared allocations are above maximum" \in reports
    /\ "measured memory is above declared allocations" \in reports
    /\ "model execution steps are above maximum" \in reports

\* ... and one reported a counted-steps mismatch beside a memory mismatch.
AllMismatchesSteps ==
    /\ Compared
    /\ "declared execution steps are above maximum" \in reports
    /\ "measured memory is above maximum" \in reports

\* C34: when RunString has returned from a run in which the script returned
\* an error, the error is reported and the test marked failed, no resource
\* comparison was reported, and RunString returned false; it returned true
\* exactly when no round returned an error.
StringErrorHandling ==
    (script.returned # "none" /\ script.runs > 0) =>
        /\ script.codeErr =>
              /\ "script error" \in reports
              /\ failed
              /\ reports \cap Mismatches = {}
              /\ script.returned = "false"
        /\ script.returned = "true" <=> ~script.codeErr

\* C35: locationsUsed after DeclareSizeDecrease(delta) is at most its value
\* before, for every delta, those above the current locationsUsed included.
DecreaseNeverRaises ==
    [][call'.name = "DeclareSizeDecrease" =>
          locationsUsed' <= locationsUsed]_vars

\* C36: with the calls of two interleaved contexts all returned, steps is
\* the number of countStep calls, locationsUsed is the deltas added less
\* the deltas subtracted, and the latch was set at most once.
AtomicCounters ==
    Quiet =>
        /\ steps = stepCalls
        /\ locationsUsed = contexts.declared % WordMod
        /\ made <= 1

\* C37: the measurement loop terminates: every round raises the repeat
\* count, which stays within nMax, and whenever RunThread is in the loop it
\* later has left it, whatever the rounds measure and take.
LoopTerminates ==
    /\ [][RoundBegins => (loopN < loopN' /\ loopN' <= nMax)]_vars
    /\ (stage = "measuring") ~> (stage # "measuring")

\* C37's case: the loop was left on the repeat ceiling alone, after rounds
\* that sampled no memory, with the clock at its ceiling.
LoopTerminatesWitness ==
    /\ Compared
    /\ loopN = nMax
    /\ memorySum = 0
    /\ elapsed = timeMax

\* C38: where RunThread computes its means (the loop is left and the test
\* base has not failed) a round has run and the sum of repeat counts is at
\* least 1; a RunThread that returned with a zero sum has failed the test.
NoDivisionByZero ==
    /\ (/\ stage = "measuring"
        /\ ~failed
        /\ ~LoopCondition(ClockNano(startNano, elapsed)))
           => (loopN >= 1 /\ nSum >= 1)
    /\ Compared => nSum >= 1
    /\ (stage \in {"checked", "aborted"} /\ nSum = 0) => failed

\* C38's cases: the means were computed after a single round with N = 1.
NoDivisionByZeroWitness ==
    /\ Compared
    /\ nSum = 1
    /\ loopN = 1

\* ... RunThread was called on a test base that had failed before: no round
\* ran, the sums are zero and no mean was computed.
NoDivisionNoRound ==
    /\ stage = "aborted"
    /\ failed
    /\ loopN = 0
    /\ nSum = 0

\* C39: the loop compares the memory sum less the tracker overhead, floored
\* at zero, with the ceiling: with no failure and the repeat count below
\* its ceiling, the loop goes on whenever that difference is below
\* memoryMax, also when the overhead exceeds the sum.
LoopFloorsOverhead ==
    (/\ stage = "measuring"
     /\ ~failed
     /\ loopN < nMax
     /\ (IF valueTrackerOverhead > memorySum
         THEN 0 ELSE memorySum - valueTrackerOverhead) < memoryMax)
        => LoopCondition(ClockNano(startNano, elapsed))

\* C40: a DeclareSizeIncrease(delta) on an unlatched Monitor whose total
\* locationsUsed + delta, taken as a number, meets or exceeds locationsCap
\* latches and returns the memory error, also when the total is beyond the
\* machine word.
NoBypassByOverflow ==
    [][(/\ call'.name = "DeclareSizeIncrease"
        /\ err = NoErr
        /\ locationsUsed + call'.arg >= locationsCap) =>
          /\ err'.kind = "too much memory"
          /\ ret' = err']_vars

====
